---- MODULE Spec2Model ----
(***************************************************************************)
(* Model of scripts/make_video.py: main(folder) reads frames.json line by  *)
(* line, writes the ffmpeg concat manifest "concatfile", closes both       *)
(* files, calls ffmpeg once and asserts that its exit status is 0.         *)
(*                                                                         *)
(* A manifest line is a tuple: <<"file", p>> stands for "file 'p'\n" and   *)
(* <<"duration", n>> for "duration n\n".  A JSON value of the step field   *)
(* is a record [t, v]: t is its Python type after json.loads ("num" for    *)
(* int, "bool" for true/false, "str" for a string, "null" for None).       *)
(***************************************************************************)
EXTENDS Integers, Sequences, FiniteSets, TLC

\* ---- bounds of the model ----
MaxFrames == 3
MaxStep == 2

\* ---- JSON values and frame log lines ----
Paths == {"a.png", "b.png"}

Num(n) == [t |-> "num", v |-> n]

StepValues ==
    {Num(n) : n \in 0..MaxStep}
        \cup {[t |-> "bool", v |-> 1], [t |-> "str", v |-> 0], [t |-> "null", v |-> 0]}

\* The JSON objects a line may hold: any subset of the two keys present.
Objects ==
    {[path |-> p, step |-> s] : p \in Paths, s \in StepValues}
        \cup {[path |-> p] : p \in Paths}
        \cup {[step |-> s] : s \in StepValues}

\* A line of frames.json: json = FALSE is text json.loads rejects
\* (a blank line, truncated text, ...).
BadLine == [json |-> FALSE, obj |-> [path |-> "a.png"]]

Lines == {[json |-> TRUE, obj |-> o] : o \in Objects} \cup {BadLine}

RECURSIVE SeqsUpTo(_, _)
SeqsUpTo(S, n) ==
    IF n = 0 THEN {<<>>}
    ELSE LET shorter == SeqsUpTo(S, n - 1)
         IN  shorter \cup {Append(q, x) : q \in {r \in shorter : Len(r) = n - 1}, x \in S}

\* ---- Python values used by main ----
None == <<"None">>
NoFrame == [none |-> TRUE]
\* what a concatfile left by an earlier run or by anyone else may hold
OldManifest == <<<<"duration", 99>>, <<"file", "stale.png">>>>
ExitCodes == {0, 1}

VARIABLES
    pc,             \* position of main
    logExists,      \* frames.json is present in the folder
    frames,         \* the lines of frames.json
    manifestExists, \* concatfile is present in the folder
    manifest,       \* the lines of concatfile
    f_open,         \* handle f (frames.json) is open
    of_open,        \* handle of (concatfile) is open
    lineNo,         \* number of lines the iterator of f has delivered
    frame,          \* loop variable frame
    old_step,       \* local old_step
    first,          \* local first
    last,           \* local last
    calls,          \* number of subprocess.call invocations
    res,            \* local res: <<>> while unbound, <<status>> once assigned
    error           \* exception that ended the run, "none" if none

vars == <<pc, logExists, frames, manifestExists, manifest, f_open, of_open,
          lineNo, frame, old_step, first, last, calls, res, error>>

Init ==
    /\ pc = "open_f"
    /\ logExists \in BOOLEAN
    /\ frames \in SeqsUpTo(Lines, MaxFrames)
    /\ (~logExists => frames = <<>>)
    /\ manifestExists \in BOOLEAN
    /\ manifest = IF manifestExists THEN OldManifest ELSE <<>>
    /\ f_open = FALSE
    /\ of_open = FALSE
    /\ lineNo = 0
    /\ frame = NoFrame
    /\ old_step = Num(0)
    /\ first = TRUE
    /\ last = None
    /\ calls = 0
    /\ res = <<>>
    /\ error = "none"

\* An exception propagates out of main; the with blocks release the handles.
Raise(e) ==
    /\ pc' = "failed"
    /\ error' = e
    /\ f_open' = FALSE
    /\ of_open' = FALSE

\* ---- expressions of the loop body ----
\* frame['k'] raises KeyError when the key is absent.
HasKey(o, k) == k \in DOMAIN o

\* Python's "-" is defined on int and bool operands (bool is a subclass of
\* int); on str and None it raises TypeError.
IsNumber(x) == x.t \in {"num", "bool"}

\* operands of the subtraction exchanged
MinusSwapped(a, b) == Num(b.v - a.v)

Minus(a, b) == Num(a.v - b.v)

\* f"duration {n}" + "\n"
DurationLine(n) == <<"duration", n>>

\* f"file '{p}'" + "\n"
FileLine(p) == <<"file", p>>

\* "duration 10\n" + l : str + None raises TypeError
CanConcat(l) == l # None

TrailerText(l) == <<DurationLine(10), l>>

\* ---- the statements of main ----
\* the manifest is opened before the log
OpenLogAfterManifest ==
    /\ pc = "open_f"
    /\ manifestExists' = TRUE
    /\ manifest' = <<>>
    /\ IF logExists
       THEN /\ f_open' = TRUE
            /\ of_open' = TRUE
            /\ old_step' = Num(0)
            /\ first' = TRUE
            /\ last' = None
            /\ pc' = "for"
            /\ UNCHANGED error
       ELSE /\ Raise("FileNotFoundError")
            /\ UNCHANGED <<old_step, first, last>>
    /\ UNCHANGED <<logExists, frames, lineNo, frame, calls, res>>

\* line 8-11: open frames.json for reading, initialise the locals
OpenLog ==
    /\ pc = "open_f"
    /\ IF logExists
       THEN /\ f_open' = TRUE
            /\ old_step' = Num(0)
            /\ first' = TRUE
            /\ last' = None
            /\ pc' = "open_of"
            /\ UNCHANGED <<of_open, error>>
       ELSE /\ Raise("FileNotFoundError")
            /\ UNCHANGED <<old_step, first, last>>
    /\ UNCHANGED <<logExists, frames, manifestExists, manifest, lineNo, frame, calls, res>>

\* line 12: open concatfile with mode "w+": created if absent, truncated
OpenManifest ==
    /\ pc = "open_of"
    /\ manifestExists' = TRUE
    /\ manifest' = <<>>
    /\ of_open' = TRUE
    /\ pc' = "for"
    /\ UNCHANGED <<logExists, frames, f_open, lineNo, frame, old_step, first, last,
                   calls, res, error>>

\* line 13: for line in f
NextLine ==
    /\ pc = "for"
    /\ IF lineNo < Len(frames)
       THEN /\ lineNo' = lineNo + 1
            /\ pc' = "loads"
       ELSE /\ pc' = "trailer"
            /\ UNCHANGED lineNo
    /\ UNCHANGED <<logExists, frames, manifestExists, manifest, f_open, of_open, frame,
                   old_step, first, last, calls, res, error>>

\* line 14: frame = loads(line.strip())
Loads ==
    /\ pc = "loads"
    /\ IF frames[lineNo].json
       THEN /\ frame' = frames[lineNo].obj
            /\ pc' = "dur"
            /\ UNCHANGED <<f_open, of_open, error>>
       ELSE /\ Raise("JSONDecodeError")
            /\ UNCHANGED frame
    /\ UNCHANGED <<logExists, frames, manifestExists, manifest, lineNo, old_step, first,
                   last, calls, res>>

\* the duration is written for the first record too
WriteDurationAlways ==
    /\ pc = "dur"
    /\ IF ~HasKey(frame, "step")
       THEN /\ Raise("KeyError")
            /\ UNCHANGED manifest
       ELSE IF ~(IsNumber(frame.step) /\ IsNumber(old_step))
       THEN /\ Raise("TypeError")
            /\ UNCHANGED manifest
       ELSE /\ manifest' = Append(manifest, DurationLine(Minus(frame.step, old_step).v))
            /\ pc' = "file"
            /\ UNCHANGED <<f_open, of_open, error>>
    /\ UNCHANGED <<logExists, frames, manifestExists, lineNo, frame, old_step, first, last,
                   calls, res>>

\* line 15-16: if not first: of.write(f"duration {frame['step'] - old_step}\n")
WriteDuration ==
    /\ pc = "dur"
    /\ IF first
       THEN /\ pc' = "file"
            /\ UNCHANGED <<manifest, f_open, of_open, error>>
       ELSE IF ~HasKey(frame, "step")
       THEN /\ Raise("KeyError")
            /\ UNCHANGED manifest
       ELSE IF ~(IsNumber(frame.step) /\ IsNumber(old_step))
       THEN /\ Raise("TypeError")
            /\ UNCHANGED manifest
       ELSE /\ manifest' = Append(manifest, DurationLine(Minus(frame.step, old_step).v))
            /\ pc' = "file"
            /\ UNCHANGED <<f_open, of_open, error>>
    /\ UNCHANGED <<logExists, frames, manifestExists, lineNo, frame, old_step, first, last,
                   calls, res>>

\* a file reference equal to the previous one is skipped
WriteFileDedup ==
    /\ pc = "file"
    /\ IF HasKey(frame, "path")
       THEN /\ manifest' = IF FileLine(frame.path) = last
                           THEN manifest
                           ELSE Append(manifest, FileLine(frame.path))
            /\ pc' = "update"
            /\ UNCHANGED <<f_open, of_open, error>>
       ELSE /\ Raise("KeyError")
            /\ UNCHANGED manifest
    /\ UNCHANGED <<logExists, frames, manifestExists, lineNo, frame, old_step, first, last,
                   calls, res>>

\* line 17-18: file_line = f"file '{frame['path']}'\n"; of.write(file_line)
WriteFile ==
    /\ pc = "file"
    /\ IF HasKey(frame, "path")
       THEN /\ manifest' = Append(manifest, FileLine(frame.path))
            /\ pc' = "update"
            /\ UNCHANGED <<f_open, of_open, error>>
       ELSE /\ Raise("KeyError")
            /\ UNCHANGED manifest
    /\ UNCHANGED <<logExists, frames, manifestExists, lineNo, frame, old_step, first, last,
                   calls, res>>

\* last is assigned for the first record only
UpdateKeepFirst ==
    /\ pc = "update"
    /\ IF HasKey(frame, "step")
       THEN /\ old_step' = frame.step
            /\ first' = FALSE
            /\ last' = IF first THEN FileLine(frame.path) ELSE last
            /\ pc' = "for"
            /\ UNCHANGED <<f_open, of_open, error>>
       ELSE /\ Raise("KeyError")
            /\ UNCHANGED <<old_step, first, last>>
    /\ UNCHANGED <<logExists, frames, manifestExists, manifest, lineNo, frame, calls, res>>

\* old_step = frame.get("step"): an absent key yields None
UpdateGet ==
    /\ pc = "update"
    /\ old_step' = IF HasKey(frame, "step") THEN frame.step ELSE [t |-> "null", v |-> 0]
    /\ first' = FALSE
    /\ last' = FileLine(frame.path)
    /\ pc' = "for"
    /\ UNCHANGED <<f_open, of_open, error>>
    /\ UNCHANGED <<logExists, frames, manifestExists, manifest, lineNo, frame, calls, res>>

\* line 19-21: old_step = frame["step"]; first = False; last = file_line
Update ==
    /\ pc = "update"
    /\ IF HasKey(frame, "step")
       THEN /\ old_step' = frame.step
            /\ first' = FALSE
            /\ last' = FileLine(frame.path)
            /\ pc' = "for"
            /\ UNCHANGED <<f_open, of_open, error>>
       ELSE /\ Raise("KeyError")
            /\ UNCHANGED <<old_step, first, last>>
    /\ UNCHANGED <<logExists, frames, manifestExists, manifest, lineNo, frame, calls, res>>

\* of.write("duration 10\n"); of.write(last): the first write succeeds
TrailerTwoWrites ==
    /\ pc = "trailer"
    /\ IF CanConcat(last)
       THEN /\ manifest' = manifest \o TrailerText(last)
            /\ pc' = "close"
            /\ UNCHANGED <<f_open, of_open, error>>
       ELSE /\ manifest' = Append(manifest, DurationLine(10))
            /\ Raise("TypeError")
    /\ UNCHANGED <<logExists, frames, manifestExists, lineNo, frame, old_step, first, last,
                   calls, res>>

\* line 22: of.write("duration 10\n" + last), one write of two lines
Trailer ==
    /\ pc = "trailer"
    /\ IF CanConcat(last)
       THEN /\ manifest' = manifest \o TrailerText(last)
            /\ pc' = "close"
            /\ UNCHANGED <<f_open, of_open, error>>
       ELSE /\ Raise("TypeError")
            /\ UNCHANGED manifest
    /\ UNCHANGED <<logExists, frames, manifestExists, lineNo, frame, old_step, first, last,
                   calls, res>>

\* the encoder call sits inside the outer with block: f is still open
CloseFilesInnerOnly ==
    /\ pc = "close"
    /\ of_open' = FALSE
    /\ pc' = "call"
    /\ UNCHANGED <<logExists, frames, manifestExists, manifest, f_open, lineNo, frame,
                   old_step, first, last, calls, res, error>>

\* end of the two with blocks (after line 22): of is closed, then f
CloseFiles ==
    /\ pc = "close"
    /\ of_open' = FALSE
    /\ f_open' = FALSE
    /\ pc' = "call"
    /\ UNCHANGED <<logExists, frames, manifestExists, manifest, lineNo, frame, old_step,
                   first, last, calls, res, error>>

\* line 33: res = subprocess.call(cmd); the exit status is the encoder's
\* choice, and the call raises when the ffmpeg executable cannot be started
CallEncoder ==
    /\ pc = "call"
    /\ calls' = calls + 1
    /\ \E started \in BOOLEAN :
         IF started
         THEN /\ \E status \in ExitCodes : res' = <<status>>
              /\ pc' = "assert"
              /\ UNCHANGED <<f_open, of_open, error>>
         ELSE /\ Raise("OSError")
              /\ UNCHANGED res
    /\ UNCHANGED <<logExists, frames, manifestExists, manifest, lineNo, frame, old_step,
                   first, last>>

\* the exit status is not checked
AssertResStripped ==
    /\ pc = "assert"
    /\ pc' = "done"
    /\ UNCHANGED <<logExists, frames, manifestExists, manifest, f_open, of_open, lineNo,
                   frame, old_step, first, last, calls, res, error>>

\* line 34: assert res == 0
AssertRes ==
    /\ pc = "assert"
    /\ IF res = <<0>>
       THEN /\ pc' = "done"
            /\ UNCHANGED <<f_open, of_open, error>>
       ELSE Raise("AssertionError")
    /\ UNCHANGED <<logExists, frames, manifestExists, manifest, lineNo, frame, old_step,
                   first, last, calls, res>>

Next ==
    \/ OpenLog
    \/ OpenManifest
    \/ NextLine
    \/ Loads
    \/ WriteDuration
    \/ WriteFile
    \/ Update
    \/ Trailer
    \/ CloseFiles
    \/ CallEncoder
    \/ AssertRes

Spec == Init /\ [][Next]_vars

\* ---- vocabulary of the properties ----
N == Len(frames)

Kind(l) == l[1]

IsFile(l) == Kind(l) = "file"

IsDuration(l) == Kind(l) = "duration"

Count(m, k) == Cardinality({j \in 1..Len(m) : Kind(m[j]) = k})

\* position in m of its i-th file reference
FilePos(m, i) ==
    CHOOSE k \in 1..Len(m) : IsFile(m[k]) /\ Count(SubSeq(m, 1, k), "file") = i

IsRecord(l) == l.json

HasBoth(l) == IsRecord(l) /\ DOMAIN l.obj = {"path", "step"}

\* a well-formed record whose step is a JSON number
WellFormed(l) == HasBoth(l) /\ l.obj.step.t = "num"

AllWellFormed == \A i \in 1..N : WellFormed(frames[i])

StrictlyIncreasing == \A i \in 1..(N - 1) : frames[i].obj.step.v < frames[i + 1].obj.step.v

\* line 22 has been executed without raising
ManifestWritten == pc \in {"close", "call", "assert", "done"} \/ calls > 0

AbortedInPass == pc = "failed" /\ calls = 0

RunEnded == pc \in {"done", "failed"}

\* ---- C1 ----
\* C1: over a log of N >= 2 well-formed records with numeric steps the run
\* is not aborted in the read/write pass, and in the written manifest the
\* file references of records i and i+1 are separated by exactly one line,
\* a duration directive of value step[i+1] - step[i], also when that value
\* is zero or negative.
C1_DurationIsStepDelta ==
    (logExists /\ N >= 2 /\ AllWellFormed) =>
        /\ ~AbortedInPass
        /\ ManifestWritten =>
             \A i \in 1..(N - 1) :
                /\ manifest[FilePos(manifest, i)] = <<"file", frames[i].obj.path>>
                /\ manifest[FilePos(manifest, i + 1)] = <<"file", frames[i + 1].obj.path>>
                /\ FilePos(manifest, i + 1) = FilePos(manifest, i) + 2
                /\ manifest[FilePos(manifest, i) + 1] =
                       <<"duration", frames[i + 1].obj.step.v - frames[i].obj.step.v>>

\* a finished run that wrote a negative and a zero duration
C1_Witness ==
    /\ pc = "done"
    /\ N = 3
    /\ AllWellFormed
    /\ frames[2].obj.step.v < frames[1].obj.step.v
    /\ frames[3].obj.step.v = frames[2].obj.step.v
    /\ manifest[2][2] < 0
    /\ manifest[4] = <<"duration", 0>>

\* ---- C2 ----
\* C2: over a log of N >= 1 well-formed records with strictly increasing
\* steps the written manifest holds exactly N+1 file references and N
\* duration directives, and its first N file references are those of the
\* input records in input order, repeated paths included.
C2_DirectiveCounts ==
    (logExists /\ N >= 1 /\ AllWellFormed /\ StrictlyIncreasing /\ ManifestWritten) =>
        /\ Count(manifest, "file") = N + 1
        /\ Count(manifest, "duration") = N
        /\ Len(manifest) = 2 * N + 1
        /\ \A i \in 1..N : manifest[FilePos(manifest, i)] = <<"file", frames[i].obj.path>>

\* three records, two consecutive ones naming the same image
C2_Witness ==
    /\ pc = "done"
    /\ N = 3
    /\ AllWellFormed
    /\ StrictlyIncreasing
    /\ frames[1].obj.path = frames[2].obj.path
    /\ frames[3].obj.path # frames[2].obj.path

\* ---- C3 ----
\* C3: once the manifest of a log with at least one record is written, its
\* last two lines are "duration 10" and a copy of the last file reference of
\* the main pass, which is the reference of the last input record; with one
\* record the manifest is exactly reference, "duration 10", reference.
C3_TrailerDuplicatesLast ==
    (logExists /\ N >= 1 /\ ManifestWritten) =>
        LET len == Len(manifest)
            body == SubSeq(manifest, 1, len - 2)
        IN  /\ len >= 3
            /\ manifest[len - 1] = <<"duration", 10>>
            /\ IsFile(body[Len(body)])
            /\ manifest[len] = body[Len(body)]
            /\ manifest[len] = <<"file", frames[N].obj.path>>
            /\ N = 1 => manifest = << <<"file", frames[1].obj.path>>, <<"duration", 10>>,
                                      <<"file", frames[1].obj.path>> >>

\* the last record names another image than the one before it
C3_Witness ==
    /\ pc = "done"
    /\ N >= 2
    /\ frames[N].obj.path # frames[N - 1].obj.path
    /\ manifest[Len(manifest)] = <<"file", frames[N].obj.path>>

\* ---- C4 ----
\* C4: from the moment the run has opened the manifest, in every state, also
\* the one an aborted run leaves behind, the manifest does not begin with a
\* duration directive and every duration directive directly follows a file
\* reference.
C4_DurationFollowsFile ==
    (logExists /\ pc \notin {"open_f", "open_of"}) =>
        /\ Len(manifest) > 0 => IsFile(manifest[1])
        /\ \A k \in 1..Len(manifest) :
              IsDuration(manifest[k]) => (k > 1 /\ IsFile(manifest[k - 1]))

\* a run aborted right after writing a duration directive
C4_Witness ==
    /\ pc = "failed"
    /\ error = "KeyError"
    /\ Len(manifest) >= 2
    /\ IsDuration(manifest[Len(manifest)])

\* ---- C5 ----
MissingField(l) == IsRecord(l) /\ DOMAIN l.obj # {"path", "step"}

FirstMissing == CHOOSE i \in 1..N : MissingField(frames[i]) /\ \A j \in 1..(i - 1) : ~MissingField(frames[j])

\* C5: when some line of the log, whatever its position, is a record without
\* the path field or without the step field, the run never gets past that
\* line: it never reaches the end of the pass, it can only end in failure,
\* and the encoder is never invoked.
C5_MissingFieldIsFatal ==
    (logExists /\ \E i \in 1..N : MissingField(frames[i])) =>
        /\ calls = 0
        /\ pc \notin {"trailer", "close", "call", "assert", "done"}
        /\ lineNo <= FirstMissing
        /\ (pc = "for" => lineNo < FirstMissing)
        /\ (RunEnded => pc = "failed" /\ error # "none")

\* the last of three records has a path but no step: the run aborts on its
\* duration, after the two records before it were written
C5_Witness ==
    /\ pc = "failed"
    /\ error = "KeyError"
    /\ N = 3
    /\ lineNo = 3
    /\ WellFormed(frames[1])
    /\ WellFormed(frames[2])
    /\ DOMAIN frames[3].obj = {"path"}
    /\ Len(manifest) = 3
    /\ calls = 0

\* ---- C6 ----
\* C6: the encoder is invoked at most once; after it has exited with a
\* non-zero status the run can only end in failure, by the assertion; after
\* it has exited with status 0 the run ends in success.
C6_EncoderStatusDecides ==
    /\ calls <= 1
    /\ (res # <<>> /\ res # <<0>>) =>
          /\ pc \in {"assert", "failed"}
          /\ (pc = "failed" => error = "AssertionError")
    /\ (res = <<0>> /\ pc # "assert") => (pc = "done" /\ error = "none")
    /\ (pc = "done" => res = <<0>> /\ calls = 1)

\* the encoder exited with status 1 after a correct manifest was written
C6_Witness ==
    /\ pc = "failed"
    /\ error = "AssertionError"
    /\ res = <<1>>
    /\ calls = 1
    /\ N >= 1
    /\ AllWellFormed

\* ---- C7 ----
\* C7 as claimed: a run over a log without records leaves a manifest that
\* holds the "duration 10" line.
C7_Claimed_TrailerWritten ==
    (logExists /\ N = 0 /\ RunEnded) =>
        (Len(manifest) >= 1 /\ manifest[1] = <<"duration", 10>>)

\* C7: a run over a log without records creates or truncates the manifest
\* and writes nothing to it: composing the trailing text raises TypeError,
\* the run fails, the manifest stays empty and the encoder is not invoked.
C7_EmptyLogLeavesEmptyManifest ==
    (logExists /\ N = 0) =>
        /\ calls = 0
        /\ pc \notin {"close", "call", "assert", "done"}
        /\ (pc \notin {"open_f", "open_of"} => manifestExists /\ manifest = <<>>)
        /\ (RunEnded => pc = "failed" /\ error = "TypeError")

\* the run over an empty log has failed, replacing a manifest that existed
C7_Witness ==
    /\ logExists
    /\ N = 0
    /\ pc = "failed"
    /\ error = "TypeError"
    /\ manifest = <<>>
    /\ manifestExists

\* ---- C8 ----
\* a record whose step is present and is a JSON string or null
WrongType(l) == IsRecord(l) /\ HasKey(l.obj, "step") /\ l.obj.step.t \in {"str", "null"}

\* C8 as claimed: when some record of the log, also the only one, has a step
\* that is not a number, the trailing "duration 10" is never written and the
\* encoder is never invoked.
C8_Claimed_WrongTypeIsFatal ==
    (logExists /\ \E i \in 1..N : WrongType(frames[i])) =>
        /\ ~ManifestWritten
        /\ calls = 0
        /\ pc # "done"

\* ---- C9 ----
\* C9: the step that invokes the encoder is the first invocation, it starts
\* with both file handles released and the manifest ending in the trailing
\* "duration 10" and the duplicated file reference, and no step taken after
\* an invocation changes the manifest.
C9_EncoderAfterManifest ==
    [][/\ calls' # calls =>
            /\ calls = 0
            /\ calls' = 1
            /\ ~f_open
            /\ ~of_open
            /\ Len(manifest) >= 3
            /\ manifest[Len(manifest) - 1] = <<"duration", 10>>
            /\ manifest[Len(manifest)] = last
            /\ lineNo = N
       /\ calls > 0 => (manifest' = manifest /\ manifestExists' = manifestExists)]_vars

\* the encoder has been invoked and the run goes on
C9_Witness ==
    /\ calls = 1
    /\ pc = "assert"
    /\ N = 2
    /\ Len(manifest) = 5

\* ---- C10 ----
\* C10: when frames.json is absent, every step of the run leaves the
\* manifest as it was (content and existence), opens no manifest handle,
\* invokes no encoder, and ends the run with FileNotFoundError.
C10_AbsentLogLeavesManifest ==
    [][~logExists =>
          /\ manifest' = manifest
          /\ manifestExists' = manifestExists
          /\ ~of_open'
          /\ calls' = 0
          /\ pc' = "failed"
          /\ error' = "FileNotFoundError"]_vars

\* the run has failed on the absent log and the old manifest is intact
C10_Witness ==
    /\ ~logExists
    /\ pc = "failed"
    /\ error = "FileNotFoundError"
    /\ manifestExists
    /\ manifest = OldManifest
    /\ calls = 0

====
